---- MODULE Spec2Model ----
(***************************************************************************)
(* Model of the stock-portfolio Flask application (src/app.py): the three  *)
(* SQLite tables, the POST / purchase handler, the GET / valuation pass,   *)
(* /add_watch and /add_alert, as run by the threads of the development     *)
(* server (app.run, line 228).                                             *)
(*                                                                         *)
(* Representation choices:                                                 *)
(*  - A Python str is the sequence of its code points ("AAPL" is           *)
(*    <<65, 65, 80, 76>>), so upper(), strip(), int(), float(), strptime() *)
(*    and strftime() are modelled by what they do to the characters.  The  *)
(*    character tables are those of Unicode 14 (CPython 3.11).             *)
(*  - A Python int is <<negative, magnitude>>, the magnitude a natural     *)
(*    number of any size.                                                  *)
(*  - A Python float / SQLite REAL is an IEEE 754 binary64: NaN, an        *)
(*    infinity, or (-1)^negative * m * 2^e; every operation rounds its     *)
(*    exact result to the nearest double, ties to even.                    *)
(*  - A datetime.date is <<year, month, day>>.                             *)
(*  - None, SQL NULL, and a raised ValueError of int()/float(), is the     *)
(*    empty tuple; int() returns <<n>> on success.                         *)
(*  - A handler is cut where it reads or writes the database: the          *)
(*    statements of one connection are separate steps, a write and its     *)
(*    commit are one step.                                                 *)
(***************************************************************************)
EXTENDS Integers, Sequences, FiniteSets, TLC

VARIABLES
    stocks,      \* table stocks: rows in rowid order
    watchlist,   \* table watchlist: rows in rowid order
    alerts,      \* table alerts: rows in rowid order
    today,       \* date.today() of the server's clock
    padsYear,    \* whether the platform's strftime zero-pads %Y to 4 digits
    locked,      \* an abandoned connection holds the database's write lock
    pc,          \* worker threads: where each is in its handler
    frame,       \* worker threads: the request, the handler's locals and the
                 \* response of each
    lots,        \* history: per symbol, the purchases POST / has recorded
    served,      \* history: the number of requests received, per route
    overlapped   \* history: a POST / was received while another was running

vars == <<stocks, watchlist, alerts, today, padsYear, locked, pc, frame,
          lots, served, overlapped>>

None == <<>>
ValueError == <<>>

-----------------------------------------------------------------------------
(* Strings and characters *)

\* str.isspace() of a character: what str.strip() removes
IsSpace(c) ==
    c \in {9, 10, 11, 12, 13, 28, 29, 30, 31, 32, 133, 160, 5760, 8192, 8193, 8194,
           8195, 8196, 8197, 8198, 8199, 8200, 8201, 8202, 8232, 8233, 8239, 8287,
           12288}

\* the characters of Unicode category Nd come in runs of ten, "0" to "9";
\* these are the zeros
DecimalZeros ==
    {48, 1632, 1776, 1984, 2406, 2534, 2662, 2790, 2918, 3046, 3174, 3302,
     3430, 3558, 3664, 3792, 3872, 4160, 4240, 6112, 6160, 6470, 6608, 6784,
     6800, 6992, 7088, 7232, 7248, 42528, 43216, 43264, 43472, 43504, 43600,
     44016, 65296, 66720, 68912, 69734, 69872, 69942, 70096, 70384, 70736,
     70864, 71248, 71360, 71472, 71904, 72016, 72784, 73040, 73120, 92768,
     92864, 93008, 120782, 120792, 120802, 120812, 120822, 123200, 123632,
     125264, 130032}

\* \d of a str pattern, and the digits int() and float() accept
IsDigit(c) == \E z \in DecimalZeros : c \in z..(z + 9)
DigitVal(c) == c - (CHOOSE z \in DecimalZeros : c \in z..(z + 9))

AllDigits(s) == \A i \in 1..Len(s) : IsDigit(s[i])

\* the value of a string of at most 9 digits
RECURSIVE DigitsVal(_)
DigitsVal(s) ==
    IF s = <<>> THEN 0
    ELSE 10 * DigitsVal(SubSeq(s, 1, Len(s) - 1)) + DigitVal(s[Len(s)])

\* [0-9] and its subranges in a pattern: the ASCII digits only
IsAsciiDigit(c) == c \in 48..57

\* str.upper(): characters with a one-character upper case, as
\* <<first, last, step, offset>>
UpperRuns ==
    {<<97, 122, 1, -32>>, <<181, 181, 1, 743>>, <<224, 246, 1, -32>>,
     <<248, 254, 1, -32>>, <<255, 255, 1, 121>>, <<257, 303, 2, -1>>,
     <<305, 305, 1, -232>>, <<307, 311, 2, -1>>, <<314, 328, 2, -1>>,
     <<331, 375, 2, -1>>, <<378, 382, 2, -1>>, <<383, 383, 1, -300>>,
     <<384, 384, 1, 195>>, <<387, 389, 2, -1>>, <<392, 392, 1, -1>>,
     <<396, 396, 1, -1>>, <<402, 402, 1, -1>>, <<405, 405, 1, 97>>,
     <<409, 409, 1, -1>>, <<410, 410, 1, 163>>, <<414, 414, 1, 130>>,
     <<417, 421, 2, -1>>, <<424, 424, 1, -1>>, <<429, 429, 1, -1>>,
     <<432, 432, 1, -1>>, <<436, 438, 2, -1>>, <<441, 441, 1, -1>>,
     <<445, 445, 1, -1>>, <<447, 447, 1, 56>>, <<453, 453, 1, -1>>,
     <<454, 454, 1, -2>>, <<456, 456, 1, -1>>, <<457, 457, 1, -2>>,
     <<459, 459, 1, -1>>, <<460, 460, 1, -2>>, <<462, 476, 2, -1>>,
     <<477, 477, 1, -79>>, <<479, 495, 2, -1>>, <<498, 498, 1, -1>>,
     <<499, 499, 1, -2>>, <<501, 501, 1, -1>>, <<505, 543, 2, -1>>,
     <<547, 563, 2, -1>>, <<572, 572, 1, -1>>, <<575, 576, 1, 10815>>,
     <<578, 578, 1, -1>>, <<583, 591, 2, -1>>, <<592, 592, 1, 10783>>,
     <<593, 593, 1, 10780>>, <<594, 594, 1, 10782>>, <<595, 595, 1, -210>>,
     <<596, 596, 1, -206>>, <<598, 599, 1, -205>>, <<601, 601, 1, -202>>,
     <<603, 603, 1, -203>>, <<604, 604, 1, 42319>>, <<608, 608, 1, -205>>,
     <<609, 609, 1, 42315>>, <<611, 611, 1, -207>>, <<613, 613, 1, 42280>>,
     <<614, 614, 1, 42308>>, <<616, 616, 1, -209>>, <<617, 617, 1, -211>>,
     <<618, 618, 1, 42308>>, <<619, 619, 1, 10743>>, <<620, 620, 1, 42305>>,
     <<623, 623, 1, -211>>, <<625, 625, 1, 10749>>, <<626, 626, 1, -213>>,
     <<629, 629, 1, -214>>, <<637, 637, 1, 10727>>, <<640, 640, 1, -218>>,
     <<642, 642, 1, 42307>>, <<643, 643, 1, -218>>, <<647, 647, 1, 42282>>,
     <<648, 648, 1, -218>>, <<649, 649, 1, -69>>, <<650, 651, 1, -217>>,
     <<652, 652, 1, -71>>, <<658, 658, 1, -219>>, <<669, 669, 1, 42261>>,
     <<670, 670, 1, 42258>>, <<837, 837, 1, 84>>, <<881, 883, 2, -1>>,
     <<887, 887, 1, -1>>, <<891, 893, 1, 130>>, <<940, 940, 1, -38>>,
     <<941, 943, 1, -37>>, <<945, 961, 1, -32>>, <<962, 962, 1, -31>>,
     <<963, 971, 1, -32>>, <<972, 972, 1, -64>>, <<973, 974, 1, -63>>,
     <<976, 976, 1, -62>>, <<977, 977, 1, -57>>, <<981, 981, 1, -47>>,
     <<982, 982, 1, -54>>, <<983, 983, 1, -8>>, <<985, 1007, 2, -1>>,
     <<1008, 1008, 1, -86>>, <<1009, 1009, 1, -80>>, <<1010, 1010, 1, 7>>,
     <<1011, 1011, 1, -116>>, <<1013, 1013, 1, -96>>, <<1016, 1016, 1, -1>>,
     <<1019, 1019, 1, -1>>, <<1072, 1103, 1, -32>>, <<1104, 1119, 1, -80>>,
     <<1121, 1153, 2, -1>>, <<1163, 1215, 2, -1>>, <<1218, 1230, 2, -1>>,
     <<1231, 1231, 1, -15>>, <<1233, 1327, 2, -1>>, <<1377, 1414, 1, -48>>,
     <<4304, 4346, 1, 3008>>, <<4349, 4351, 1, 3008>>, <<5112, 5117, 1, -8>>,
     <<7296, 7296, 1, -6254>>, <<7297, 7297, 1, -6253>>,
     <<7298, 7298, 1, -6244>>, <<7299, 7300, 1, -6242>>,
     <<7301, 7301, 1, -6243>>, <<7302, 7302, 1, -6236>>,
     <<7303, 7303, 1, -6181>>, <<7304, 7304, 1, 35266>>,
     <<7545, 7545, 1, 35332>>, <<7549, 7549, 1, 3814>>,
     <<7566, 7566, 1, 35384>>, <<7681, 7829, 2, -1>>, <<7835, 7835, 1, -59>>,
     <<7841, 7935, 2, -1>>, <<7936, 7943, 1, 8>>, <<7952, 7957, 1, 8>>,
     <<7968, 7975, 1, 8>>, <<7984, 7991, 1, 8>>, <<8000, 8005, 1, 8>>,
     <<8017, 8023, 2, 8>>, <<8032, 8039, 1, 8>>, <<8048, 8049, 1, 74>>,
     <<8050, 8053, 1, 86>>, <<8054, 8055, 1, 100>>, <<8056, 8057, 1, 128>>,
     <<8058, 8059, 1, 112>>, <<8060, 8061, 1, 126>>, <<8112, 8113, 1, 8>>,
     <<8126, 8126, 1, -7205>>, <<8144, 8145, 1, 8>>, <<8160, 8161, 1, 8>>,
     <<8165, 8165, 1, 7>>, <<8526, 8526, 1, -28>>, <<8560, 8575, 1, -16>>,
     <<8580, 8580, 1, -1>>, <<9424, 9449, 1, -26>>, <<11312, 11359, 1, -48>>,
     <<11361, 11361, 1, -1>>, <<11365, 11365, 1, -10795>>,
     <<11366, 11366, 1, -10792>>, <<11368, 11372, 2, -1>>,
     <<11379, 11379, 1, -1>>, <<11382, 11382, 1, -1>>,
     <<11393, 11491, 2, -1>>, <<11500, 11502, 2, -1>>,
     <<11507, 11507, 1, -1>>, <<11520, 11557, 1, -7264>>,
     <<11559, 11559, 1, -7264>>, <<11565, 11565, 1, -7264>>,
     <<42561, 42605, 2, -1>>, <<42625, 42651, 2, -1>>,
     <<42787, 42799, 2, -1>>, <<42803, 42863, 2, -1>>,
     <<42874, 42876, 2, -1>>, <<42879, 42887, 2, -1>>,
     <<42892, 42892, 1, -1>>, <<42897, 42899, 2, -1>>,
     <<42900, 42900, 1, 48>>, <<42903, 42921, 2, -1>>,
     <<42933, 42947, 2, -1>>, <<42952, 42954, 2, -1>>,
     <<42961, 42961, 1, -1>>, <<42967, 42969, 2, -1>>,
     <<42998, 42998, 1, -1>>, <<43859, 43859, 1, -928>>,
     <<43888, 43967, 1, -38864>>, <<65345, 65370, 1, -32>>,
     <<66600, 66639, 1, -40>>, <<66776, 66811, 1, -40>>,
     <<66967, 66977, 1, -39>>, <<66979, 66993, 1, -39>>,
     <<66995, 67001, 1, -39>>, <<67003, 67004, 1, -39>>,
     <<68800, 68850, 1, -64>>, <<71872, 71903, 1, -32>>,
     <<93792, 93823, 1, -32>>, <<125218, 125251, 1, -34>>}

\* characters with an upper case of several characters, as <<c, upper>>
UpperSpecial ==
    {<<223, <<83, 83>>>>, <<329, <<700, 78>>>>, <<496, <<74, 780>>>>,
     <<912, <<921, 776, 769>>>>, <<944, <<933, 776, 769>>>>,
     <<1415, <<1333, 1362>>>>, <<7830, <<72, 817>>>>, <<7831, <<84, 776>>>>,
     <<7832, <<87, 778>>>>, <<7833, <<89, 778>>>>, <<7834, <<65, 702>>>>,
     <<8016, <<933, 787>>>>, <<8018, <<933, 787, 768>>>>,
     <<8020, <<933, 787, 769>>>>, <<8022, <<933, 787, 834>>>>,
     <<8064, <<7944, 921>>>>, <<8065, <<7945, 921>>>>,
     <<8066, <<7946, 921>>>>, <<8067, <<7947, 921>>>>,
     <<8068, <<7948, 921>>>>, <<8069, <<7949, 921>>>>,
     <<8070, <<7950, 921>>>>, <<8071, <<7951, 921>>>>,
     <<8072, <<7944, 921>>>>, <<8073, <<7945, 921>>>>,
     <<8074, <<7946, 921>>>>, <<8075, <<7947, 921>>>>,
     <<8076, <<7948, 921>>>>, <<8077, <<7949, 921>>>>,
     <<8078, <<7950, 921>>>>, <<8079, <<7951, 921>>>>,
     <<8080, <<7976, 921>>>>, <<8081, <<7977, 921>>>>,
     <<8082, <<7978, 921>>>>, <<8083, <<7979, 921>>>>,
     <<8084, <<7980, 921>>>>, <<8085, <<7981, 921>>>>,
     <<8086, <<7982, 921>>>>, <<8087, <<7983, 921>>>>,
     <<8088, <<7976, 921>>>>, <<8089, <<7977, 921>>>>,
     <<8090, <<7978, 921>>>>, <<8091, <<7979, 921>>>>,
     <<8092, <<7980, 921>>>>, <<8093, <<7981, 921>>>>,
     <<8094, <<7982, 921>>>>, <<8095, <<7983, 921>>>>,
     <<8096, <<8040, 921>>>>, <<8097, <<8041, 921>>>>,
     <<8098, <<8042, 921>>>>, <<8099, <<8043, 921>>>>,
     <<8100, <<8044, 921>>>>, <<8101, <<8045, 921>>>>,
     <<8102, <<8046, 921>>>>, <<8103, <<8047, 921>>>>,
     <<8104, <<8040, 921>>>>, <<8105, <<8041, 921>>>>,
     <<8106, <<8042, 921>>>>, <<8107, <<8043, 921>>>>,
     <<8108, <<8044, 921>>>>, <<8109, <<8045, 921>>>>,
     <<8110, <<8046, 921>>>>, <<8111, <<8047, 921>>>>,
     <<8114, <<8122, 921>>>>, <<8115, <<913, 921>>>>, <<8116, <<902, 921>>>>,
     <<8118, <<913, 834>>>>, <<8119, <<913, 834, 921>>>>,
     <<8124, <<913, 921>>>>, <<8130, <<8138, 921>>>>, <<8131, <<919, 921>>>>,
     <<8132, <<905, 921>>>>, <<8134, <<919, 834>>>>,
     <<8135, <<919, 834, 921>>>>, <<8140, <<919, 921>>>>,
     <<8146, <<921, 776, 768>>>>, <<8147, <<921, 776, 769>>>>,
     <<8150, <<921, 834>>>>, <<8151, <<921, 776, 834>>>>,
     <<8162, <<933, 776, 768>>>>, <<8163, <<933, 776, 769>>>>,
     <<8164, <<929, 787>>>>, <<8166, <<933, 834>>>>,
     <<8167, <<933, 776, 834>>>>, <<8178, <<8186, 921>>>>,
     <<8179, <<937, 921>>>>, <<8180, <<911, 921>>>>, <<8182, <<937, 834>>>>,
     <<8183, <<937, 834, 921>>>>, <<8188, <<937, 921>>>>,
     <<64256, <<70, 70>>>>, <<64257, <<70, 73>>>>, <<64258, <<70, 76>>>>,
     <<64259, <<70, 70, 73>>>>, <<64260, <<70, 70, 76>>>>,
     <<64261, <<83, 84>>>>, <<64262, <<83, 84>>>>, <<64275, <<1348, 1350>>>>,
     <<64276, <<1348, 1333>>>>, <<64277, <<1348, 1339>>>>,
     <<64278, <<1358, 1350>>>>, <<64279, <<1348, 1341>>>>}

UpperChar(c) ==
    IF \E u \in UpperSpecial : u[1] = c
    THEN (CHOOSE u \in UpperSpecial : u[1] = c)[2]
    ELSE IF \E r \in UpperRuns : c \in r[1]..r[2] /\ (c - r[1]) % r[3] = 0
    THEN <<c + (CHOOSE r \in UpperRuns :
                    c \in r[1]..r[2] /\ (c - r[1]) % r[3] = 0)[4]>>
    ELSE <<c>>

RECURSIVE Upper(_)
Upper(s) == IF s = <<>> THEN <<>> ELSE UpperChar(Head(s)) \o Upper(Tail(s))

\* str.strip()
LStrip(s) ==
    LET kept == {i \in 1..Len(s) : ~IsSpace(s[i])}
    IN  IF kept = {} THEN <<>>
        ELSE SubSeq(s, CHOOSE i \in kept : \A j \in kept : i <= j, Len(s))
RStrip(s) ==
    LET kept == {i \in 1..Len(s) : ~IsSpace(s[i])}
    IN  IF kept = {} THEN <<>>
        ELSE SubSeq(s, 1, CHOOSE i \in kept : \A j \in kept : i >= j)
Strip(s) == RStrip(LStrip(s))

-----------------------------------------------------------------------------
(* Natural numbers of any size (Python's int has no width): limbs in base  *)
(* 2^15, least significant first, no zero limb at the top; 0 is <<>>.      *)

Base == 32768

\* 2^k for k in 0..14
Pow2(k) ==
    <<1, 2, 4, 8, 16, 32, 64, 128, 256, 512, 1024, 2048, 4096, 8192, 16384>>[k + 1]

Max(a, b) == IF a >= b THEN a ELSE b
Min(a, b) == IF a <= b THEN a ELSE b

RECURSIVE BNat(_)
BNat(n) == IF n = 0 THEN <<>> ELSE <<n % Base>> \o BNat(n \div Base)

\* limbs without the zero limbs at the top
BNorm(a) ==
    LET used == {i \in 1..Len(a) : a[i] # 0 /\ \A j \in (i + 1)..Len(a) : a[j] = 0}
    IN  IF used = {} THEN <<>> ELSE SubSeq(a, 1, CHOOSE i \in used : TRUE)

BLimb(a, i) == IF i <= Len(a) THEN a[i] ELSE 0

BLess(a, b) ==
    \/ Len(a) < Len(b)
    \/ /\ Len(a) = Len(b)
       /\ \E i \in 1..Len(a) :
            a[i] < b[i] /\ \A j \in (i + 1)..Len(a) : a[j] = b[j]

\* a + b: a limb receives a carry when a limb below it overflows and every
\* limb between the two is full
BAdd(a, b) ==
    LET n == Max(Len(a), Len(b))
        s == [i \in 1..n |-> BLimb(a, i) + BLimb(b, i)]
        carry(i) == \E j \in 1..(i - 1) :
                        s[j] >= Base /\ \A k \in (j + 1)..(i - 1) : s[k] = Base - 1
    IN  [i \in 1..n |-> (s[i] + (IF carry(i) THEN 1 ELSE 0)) % Base]
        \o (IF carry(n + 1) THEN <<1>> ELSE <<>>)

\* a - b for a >= b
BSub(a, b) ==
    LET d == [i \in 1..Len(a) |-> a[i] - BLimb(b, i)]
        borrow(i) == \E j \in 1..(i - 1) :
                        d[j] < 0 /\ \A k \in (j + 1)..(i - 1) : d[k] = 0
    IN  BNorm([i \in 1..Len(a) |-> (d[i] - (IF borrow(i) THEN 1 ELSE 0) + Base) % Base])

\* a * Base^n
BUp(a, n) == IF a = <<>> THEN <<>> ELSE [i \in 1..n |-> 0] \o a

\* a * k for a limb k
BMulSmall(a, k) ==
    BAdd(BNorm([i \in 1..Len(a) |-> (a[i] * k) % Base]),
         BUp(BNorm([i \in 1..Len(a) |-> (a[i] * k) \div Base]), 1))

RECURSIVE BMul(_, _)
BMul(a, b) ==
    IF b = <<>> THEN <<>>
    ELSE IF Len(b) = 1 THEN BMulSmall(a, b[1])
    ELSE LET h == Len(b) \div 2
             low == BMul(a, BNorm(SubSeq(b, 1, h)))
             high == BMul(a, SubSeq(b, h + 1, Len(b)))
         IN  BAdd(low, BUp(high, h))

\* the quotient and the remainder of the limbs i.. of a by a limb k > 0
RECURSIVE BDivSmallFrom(_, _, _)
BDivSmallFrom(a, k, i) ==
    IF i > Len(a) THEN [q |-> <<>>, r |-> 0]
    ELSE LET h == BDivSmallFrom(a, k, i + 1)
             cur == h.r * Base + a[i]
         IN  [q |-> <<cur \div k>> \o h.q, r |-> cur % k]

\* the largest limb d with d * b <= cur, found bit by bit from d
RECURSIVE BQuotLimb(_, _, _, _)
BQuotLimb(cur, b, d, bit) ==
    IF bit < 0 THEN d
    ELSE IF BLess(cur, BMulSmall(b, d + Pow2(bit))) THEN BQuotLimb(cur, b, d, bit - 1)
    ELSE BQuotLimb(cur, b, d + Pow2(bit), bit - 1)

\* one step of the long division by b: the limb d of the quotient that the
\* running remainder cur gives, put before the limbs q found so far
BDivLimb(b, q, cur, d) ==
    [q |-> <<d>> \o q, r |-> IF d = 0 THEN cur ELSE BSub(cur, BMulSmall(b, d))]

BDivStep(b, q, cur) ==
    BDivLimb(b, q, cur, IF BLess(cur, b) THEN 0 ELSE BQuotLimb(cur, b, 0, 14))

\* the next limb of a is brought down to the remainder of the division h
BDivNext(limb, b, h) == BDivStep(b, h.q, BNorm(<<limb>> \o h.r))

\* long division of a by b, Len(a) >= Len(b) > 1: the limbs above
\* Len(a) - Len(b) + 1 are the first remainder, then one limb at a time
RECURSIVE BDivFrom(_, _, _)
BDivFrom(a, b, i) ==
    IF i > Len(a) - Len(b) + 1
    THEN [q |-> <<>>, r |-> BNorm(SubSeq(a, i, Len(a)))]
    ELSE BDivNext(a[i], b, BDivFrom(a, b, i + 1))

BDivSmall(s) == [q |-> BNorm(s.q), r |-> BNat(s.r)]

BDivLong(g) == [q |-> BNorm(g.q), r |-> g.r]

\* a divided by b # 0: [q |-> quotient, r |-> remainder]
BDivMod(a, b) ==
    IF BLess(a, b) THEN [q |-> <<>>, r |-> a]
    ELSE IF Len(b) = 1 THEN BDivSmall(BDivSmallFrom(a, b[1], 1))
    ELSE BDivLong(BDivFrom(a, b, 1))

\* the number of bits of a
BitLen(a) ==
    IF a = <<>> THEN 0
    ELSE 15 * (Len(a) - 1)
         + (CHOOSE k \in 1..15 : Pow2(k - 1) <= a[Len(a)] /\ a[Len(a)] < 2 * Pow2(k - 1))

\* a * 2^s
BShl(a, s) == BUp(BMulSmall(a, Pow2(s % 15)), s \div 15)

\* a \div 2^s
BShr(a, s) ==
    LET d == s \div 15
        r == s % 15
    IN  BNorm([i \in 1..(Len(a) - d) |->
                  (a[i + d] \div Pow2(r)) + (BLimb(a, i + d + 1) % Pow2(r)) * (Base \div Pow2(r))])

\* bit i of a, bit 0 the lowest
BBit(a, i) == (BLimb(a, (i \div 15) + 1) \div Pow2(i % 15)) % 2

\* a % 2^s # 0
BLowBits(a, s) ==
    \/ \E i \in 1..Min(s \div 15, Len(a)) : a[i] # 0
    \/ BLimb(a, (s \div 15) + 1) % Pow2(s % 15) # 0

\* the number of zero bits below the lowest set bit of a # 0
BTrailingZeros(a) ==
    LET i == CHOOSE j \in 1..Len(a) : a[j] # 0 /\ \A k \in 1..(j - 1) : a[k] = 0
        z == CHOOSE k \in 0..14 : a[i] % Pow2(k) = 0 /\ (a[i] \div Pow2(k)) % 2 = 1
    IN  15 * (i - 1) + z

\* 10^k
RECURSIVE BPow10(_)
BPow10(k) ==
    IF k = 0 THEN <<1>>
    ELSE LET h == BPow10(k \div 2)
         IN  IF Len(h) > 0 /\ k % 2 = 1 THEN BMulSmall(BMul(h, h), 10) ELSE BMul(h, h)

\* the value of a string of decimal digits
RECURSIVE BDigits(_)
BDigits(s) ==
    IF Len(s) <= 9 THEN BNat(DigitsVal(s))
    ELSE LET h == Len(s) \div 2
             high == BDigits(SubSeq(s, 1, h))
             low == BDigits(SubSeq(s, h + 1, Len(s)))
         IN  BAdd(BMul(high, BPow10(Len(s) - h)), low)

-----------------------------------------------------------------------------
(* Python's int: <<negative, magnitude>> *)

ZInt(n) == <<n < 0, BNat(IF n < 0 THEN -n ELSE n)>>
ZZero == <<FALSE, <<>>>>
ZMake(neg, mag) == <<neg /\ mag # <<>>, mag>>

ZAdd(a, b) ==
    IF a[1] = b[1] THEN ZMake(a[1], BAdd(a[2], b[2]))
    ELSE IF BLess(a[2], b[2]) THEN ZMake(b[1], BSub(b[2], a[2]))
    ELSE ZMake(a[1], BSub(a[2], b[2]))

\* what SQLite's INTEGER holds: -2^63 .. 2^63 - 1
ZFitsInt64(z) ==
    \/ BitLen(z[2]) <= 63
    \/ z[1] /\ z[2] = BShl(<<1>>, 63)

-----------------------------------------------------------------------------
(* Python's float, an IEEE 754 binary64: <<kind, negative, m, e>> with     *)
(* kind "nan", "inf" or "fin"; a finite value is m * 2^e with m odd, or    *)
(* m = 0 and e = 0; the zero keeps its sign.                               *)

NaN == <<"nan", FALSE, <<>>, 0>>
Infinity(neg) == <<"inf", neg, <<>>, 0>>
FZero(neg) == <<"fin", neg, <<>>, 0>>

IsNaN(x) == x[1] = "nan"
IsInf(x) == x[1] = "inf"
IsFinite(x) == x[1] = "fin"
IsZero(x) == x[1] = "fin" /\ x[3] = <<>>

Finite(neg, m, e) ==
    IF m = <<>> THEN FZero(neg)
    ELSE LET z == BTrailingZeros(m) IN <<"fin", neg, BShr(m, z), e + z>>

\* m0, or m0 + 1 when the bits dropped below it are more than half, or are
\* half and m0 is odd (ties to even)
BRoundUp(m0, half, rest) ==
    IF half /\ (rest \/ (m0 # <<>> /\ m0[1] % 2 = 1)) THEN BAdd(m0, <<1>>) ELSE m0

\* m * 2^e, infinity from 2^1024
Overflowing(neg, m, e) ==
    IF BitLen(m) + e > 1024 THEN Infinity(neg) ELSE Finite(neg, m, e)

NearestDropping(neg, q, sticky, e, drop) ==
    Overflowing(neg,
                BRoundUp(BShr(q, drop),
                         drop > 0 /\ BBit(q, drop - 1) = 1,
                         sticky \/ (drop > 1 /\ BLowBits(q, drop - 1))),
                e + drop)

\* the double nearest to (q + f) * 2^e, where 0 <= f < 1 and sticky says
\* f # 0 (then q has more than 54 bits): 53 bits, ties to even, exponents
\* down to 2^-1074, infinity from 2^1024
Nearest(neg, q, sticky, e) ==
    NearestDropping(neg, q, sticky, e, Max(Max(BitLen(q) - 53, -1074 - e), 0))

NearestOfDivision(neg, dm, e) == Nearest(neg, dm.q, dm.r # <<>>, e)

NearestQuotientShifted(neg, n, d, e, s) ==
    NearestOfDivision(neg, BDivMod(BShl(n, s), d), e - s)

\* the double nearest to (n / d) * 2^e, d # 0
NearestQuotient(neg, n, d, e) ==
    IF n = <<>> THEN FZero(neg)
    ELSE NearestQuotientShifted(neg, n, d, e, Max(0, 55 - (BitLen(n) - BitLen(d))))

FNeg(x) == IF IsNaN(x) THEN x ELSE <<x[1], ~x[2], x[3], x[4]>>

\* the exponent above the highest bit of a finite x # 0: 2^(Top - 1) <= |x| < 2^Top
Top(x) == x[4] + BitLen(x[3])

\* a + b or a - b, times 2^e, rounded
NearestSum(neg, a, b, subtract, sticky, e) ==
    Nearest(neg, IF subtract THEN BSub(a, b) ELSE BAdd(a, b), sticky, e)

AddAligned(neg, x, y, subtract, s, e) ==
    IF Top(y) <= x[4] - s
    THEN NearestSum(neg, BShl(x[3], s), IF subtract THEN <<1>> ELSE <<>>,
                    subtract, TRUE, x[4] - s)
    ELSE NearestSum(neg, BShl(x[3], x[4] - e), BShl(y[3], y[4] - e),
                    subtract, FALSE, e)

\* |x| + |y| or |x| - |y| for finite x and y, |x| >= |y| > 0 (|x| > |y| to
\* subtract), with the sign neg; a y below the 56th bit of x only says which
\* way to round
AddMagnitudes(neg, x, y, subtract) ==
    AddAligned(neg, x, y, subtract, Max(0, 56 - BitLen(x[3])), Min(x[4], y[4]))

\* |x| < |y| for finite x and y
MagnitudeLess(x, y) ==
    IF IsZero(y) THEN FALSE
    ELSE IF IsZero(x) THEN TRUE
    ELSE IF Top(x) # Top(y) THEN Top(x) < Top(y)
    ELSE LET e == Min(x[4], y[4])
         IN  BLess(BShl(x[3], x[4] - e), BShl(y[3], y[4] - e))

\* x + y for finite x and y, |x| >= |y| > 0
AddOrdered(x, y) ==
    IF x[2] # y[2] /\ ~MagnitudeLess(y, x) THEN FZero(FALSE)
    ELSE AddMagnitudes(x[2], x, y, x[2] # y[2])

AddFinite(x, y, less) == AddOrdered(IF less THEN y ELSE x, IF less THEN x ELSE y)

\* x + y
FAdd(x, y) ==
    IF IsNaN(x) \/ IsNaN(y) THEN NaN
    ELSE IF IsInf(x) THEN (IF IsInf(y) /\ x[2] # y[2] THEN NaN ELSE x)
    ELSE IF IsInf(y) THEN y
    ELSE IF IsZero(x) /\ IsZero(y) THEN FZero(x[2] /\ y[2])
    ELSE IF IsZero(y) THEN x
    ELSE IF IsZero(x) THEN y
    ELSE AddFinite(x, y, MagnitudeLess(x, y))

\* x - y
FSub(x, y) == FAdd(x, FNeg(y))

\* x * y
FMul(x, y) ==
    IF IsNaN(x) \/ IsNaN(y) THEN NaN
    ELSE IF IsInf(x) \/ IsInf(y) THEN
        (IF IsZero(x) \/ IsZero(y) THEN NaN ELSE Infinity(x[2] # y[2]))
    ELSE Nearest(x[2] # y[2], BMul(x[3], y[3]), FALSE, x[4] + y[4])

\* x / y for y # 0 (Python raises ZeroDivisionError on y = 0 first)
FDiv(x, y) ==
    IF IsNaN(x) \/ IsNaN(y) THEN NaN
    ELSE IF IsInf(x) THEN (IF IsInf(y) THEN NaN ELSE Infinity(x[2] # y[2]))
    ELSE IF IsInf(y) THEN FZero(x[2] # y[2])
    ELSE NearestQuotient(x[2] # y[2], x[3], y[3], x[4] - y[4])

\* x == y
FEq(x, y) ==
    /\ ~IsNaN(x) /\ ~IsNaN(y)
    /\ x = y \/ (IsZero(x) /\ IsZero(y))

\* x < y
FLess(x, y) ==
    /\ ~IsNaN(x) /\ ~IsNaN(y)
    /\ ~FEq(x, y)
    /\ IF IsInf(x) THEN x[2]
       ELSE IF IsInf(y) THEN ~y[2]
       ELSE IF x[2] # y[2] THEN x[2]
       ELSE IF x[2] THEN MagnitudeLess(y, x)
       ELSE MagnitudeLess(x, y)

\* x >= y
FGeq(x, y) == FEq(x, y) \/ FLess(y, x)

OverflowErrorOnInf(x) == IF IsInf(x) THEN <<>> ELSE x

\* float(n) of an int: OverflowError (<<>>) from 2^1024
FloatOfInt(z) == OverflowErrorOnInf(Nearest(z[1], z[2], FALSE, 0))

\* n / 2^k rounded to an integer, ties to even, and divided by 100
RoundHundredths(neg, n, k) ==
    NearestQuotient(neg,
                    BRoundUp(BShr(n, k), BBit(n, k - 1) = 1,
                             k > 1 /\ BLowBits(n, k - 1)),
                    <<100>>, 0)

\* round(x, 2): the double nearest to the decimal with two places nearest to
\* x, ties of x itself to the even decimal
Round(x) ==
    IF ~IsFinite(x) \/ x[4] >= 0 THEN x
    ELSE RoundHundredths(x[2], BMulSmall(x[3], 100), -x[4])

-----------------------------------------------------------------------------
(* int() and float() of a form field *)

\* what int() and float() make of a str before they parse it: a space
\* becomes " ", a decimal digit its ASCII digit, any other character from
\* 127 on "?"
AsciiChar(c) ==
    IF c < 127 THEN c
    ELSE IF IsSpace(c) THEN 32
    ELSE IF IsDigit(c) THEN 48 + DigitVal(c)
    ELSE 63

TrimNumber(a, kept) ==
    IF kept = {} THEN <<>>
    ELSE SubSeq(a, CHOOSE i \in kept : \A j \in kept : i <= j,
                   CHOOSE i \in kept : \A j \in kept : i >= j)

NumberChars(a) == TrimNumber(a, {i \in 1..Len(a) : a[i] \notin (9..13) \cup {32}})

\* the white space around a number: "\t\n\v\f\r" and " "
NumberText(s) == NumberChars([i \in 1..Len(s) |-> AsciiChar(s[i])])

AllAsciiDigits(s) == \A i \in 1..Len(s) : IsAsciiDigit(s[i])

DropChar(s, c) == SelectSeq(s, LAMBDA x : x # c)

\* "_" may stand between two digits only
UnderscoresBetweenDigits(s) ==
    \A i \in 1..Len(s) :
        s[i] = 95 => /\ i > 1 /\ i < Len(s)
                     /\ IsAsciiDigit(s[i - 1]) /\ IsAsciiDigit(s[i + 1])

\* a leading "+" or "-"
Unsign(s) == IF s # <<>> /\ Head(s) \in {43, 45} THEN Tail(s) ELSE s
IsNegative(s) == s # <<>> /\ Head(s) = 45

\* s without its leading "0"s
DropZeros(s) ==
    LET first == {i \in 1..Len(s) : s[i] # 48 /\ \A j \in 1..(i - 1) : s[j] = 48}
    IN  IF first = {} THEN <<>> ELSE SubSeq(s, CHOOSE i \in first : TRUE, Len(s))

\* int() of the digits u: more than sys.int_info.default_max_str_digits
\* (4300) of them is a ValueError
IntOfDigits(negative, u) ==
    IF u # <<>> /\ AllAsciiDigits(u) /\ Len(u) <= 4300
    THEN <<ZMake(negative, BDigits(u))>>
    ELSE ValueError

IntOfText(t) ==
    IF UnderscoresBetweenDigits(t)
    THEN IntOfDigits(IsNegative(t), DropChar(Unsign(t), 95))
    ELSE ValueError

\* int(s): ValueError or <<the int>>
ParseInt(s) == IntOfText(NumberText(s))

\* the exponent written by the digits d: magnitudes from 100000 on are all
\* the same to float()
ExponentOfDigits(negative, d) ==
    IF negative
    THEN -(IF Len(d) > 5 THEN 100000 ELSE DigitsVal(d))
    ELSE (IF Len(d) > 5 THEN 100000 ELSE DigitsVal(d))

\* the exponent after "e", cut off at 100000 (which is beyond every double)
Exponent(s) == ExponentOfDigits(IsNegative(s), DropZeros(Unsign(s)))

\* ASCII letters in upper case
AsciiUpper(s) == [i \in 1..Len(s) |-> IF s[i] \in 97..122 THEN s[i] - 32 ELSE s[i]]

\* the double nearest to n * 10^e10
ScaledDecimal(neg, n, e10) ==
    IF e10 >= 0 THEN Nearest(neg, BMul(n, BPow10(e10)), FALSE, 0)
    ELSE NearestQuotient(neg, n, BPow10(-e10), 0)

\* the double nearest to digits * 10^e10, digits without leading zeros
Decimal(neg, digits, e10) ==
    IF digits = <<>> THEN FZero(neg)
    ELSE IF Len(digits) + e10 > 309 THEN Infinity(neg)
    ELSE IF Len(digits) + e10 < -323 THEN FZero(neg)
    ELSE ScaledDecimal(neg, BDigits(digits), e10)

\* the first place of s that holds one of chars, or Len(s) + 1
Find(s, chars) ==
    IF \E i \in 1..Len(s) : s[i] \in chars
    THEN CHOOSE i \in 1..Len(s) : s[i] \in chars /\ \A j \in 1..(i - 1) : s[j] \notin chars
    ELSE Len(s) + 1

Count(s, chars) == Cardinality({i \in 1..Len(s) : s[i] \in chars})

\* whole "." frac, times 10^exponent
FloatOfFields(neg, whole, frac, exponent) ==
    IF ~AllAsciiDigits(whole) \/ ~AllAsciiDigits(frac) \/ Len(whole) + Len(frac) = 0
    THEN ValueError
    ELSE Decimal(neg, DropZeros(whole \o frac), exponent - Len(frac))

FloatOfNumber(neg, number, dot, exponent) ==
    IF Count(number, {46}) > 1 THEN ValueError
    ELSE FloatOfFields(neg, SubSeq(number, 1, dot - 1),
                       SubSeq(number, dot + 1, Len(number)), exponent)

\* number, or number "e" exponent
FloatOfParts(neg, number, marked, exponent) ==
    IF marked /\ (Unsign(exponent) = <<>> \/ ~AllAsciiDigits(Unsign(exponent)))
    THEN ValueError
    ELSE FloatOfNumber(neg, number, Find(number, {46}),
                       IF marked THEN Exponent(exponent) ELSE 0)

FloatOfDigits(neg, u, mark) ==
    IF Count(u, {69, 101}) > 1 THEN ValueError
    ELSE FloatOfParts(neg, SubSeq(u, 1, mark - 1), mark <= Len(u),
                      SubSeq(u, mark + 1, Len(u)))

FloatOfUnsigned(neg, t, u) ==
    IF AsciiUpper(u) \in {<<73, 78, 70>>, <<73, 78, 70, 73, 78, 73, 84, 89>>}
    THEN Infinity(neg)
    ELSE IF AsciiUpper(u) = <<78, 65, 78>> THEN NaN
    ELSE IF ~UnderscoresBetweenDigits(t) THEN ValueError
    ELSE FloatOfDigits(neg, DropChar(u, 95), Find(DropChar(u, 95), {69, 101}))

FloatOfText(t) == FloatOfUnsigned(IsNegative(t), t, Unsign(t))

\* float(s): ValueError or the double
ParseFloat(s) == FloatOfText(NumberText(s))

-----------------------------------------------------------------------------
(* datetime.date, strptime("%Y-%m-%d") and strftime("%Y-%m-%d") *)

DaysInMonth(y, m) ==
    IF m = 2 THEN (IF y % 4 = 0 /\ (y % 100 # 0 \/ y % 400 = 0) THEN 29 ELSE 28)
    ELSE IF m \in {4, 6, 9, 11} THEN 30 ELSE 31

RECURSIVE DaysBeforeMonth(_, _)
DaysBeforeMonth(y, m) ==
    IF m = 1 THEN 0 ELSE DaysBeforeMonth(y, m - 1) + DaysInMonth(y, m - 1)

\* date.toordinal()
ToOrdinal(d) ==
    LET y == d[1] - 1
    IN  365 * y + (y \div 4) - (y \div 100) + (y \div 400)
        + DaysBeforeMonth(d[1], d[2]) + d[3]

\* (a - b).days
DaysBetween(a, b) == ToOrdinal(a) - ToOrdinal(b)

\* a < b on dates
DateLess(a, b) ==
    \/ a[1] < b[1]
    \/ a[1] = b[1] /\ a[2] < b[2]
    \/ a[1] = b[1] /\ a[2] = b[2] /\ a[3] < b[3]

\* the day after d
NextDay(d) ==
    IF d[3] < DaysInMonth(d[1], d[2]) THEN <<d[1], d[2], d[3] + 1>>
    ELSE IF d[2] < 12 THEN <<d[1], d[2] + 1, 1>>
    ELSE <<d[1] + 1, 1, 1>>

\* %m as strptime reads it, 1[0-2] | 0[1-9] | [1-9]: the month, or 0
MonthField(f) ==
    IF Len(f) = 2 /\ f[1] = 49 /\ f[2] \in 48..50 THEN 10 + (f[2] - 48)
    ELSE IF Len(f) = 2 /\ f[1] = 48 /\ f[2] \in 49..57 THEN f[2] - 48
    ELSE IF Len(f) = 1 /\ f[1] \in 49..57 THEN f[1] - 48
    ELSE 0

\* %d as strptime reads it, 3[01] | [12]\d | 0[1-9] | [1-9] | " "[1-9]:
\* the day, or 0
DayField(f) ==
    IF Len(f) = 2 /\ f[1] = 51 /\ f[2] \in 48..49 THEN 30 + (f[2] - 48)
    ELSE IF Len(f) = 2 /\ f[1] \in 49..50 /\ IsDigit(f[2])
    THEN 10 * (f[1] - 48) + DigitVal(f[2])
    ELSE IF Len(f) = 2 /\ f[1] \in {48, 32} /\ f[2] \in 49..57 THEN f[2] - 48
    ELSE IF Len(f) = 1 /\ f[1] \in 49..57 THEN f[1] - 48
    ELSE 0

\* parse_date(d): the date, or None when strptime raises
parse_date(s) ==
    LET dashes == {i \in 6..Len(s) : s[i] = 45}
        second == IF dashes = {} THEN 0
                  ELSE CHOOSE i \in dashes : \A j \in dashes : i <= j
        y == DigitsVal(SubSeq(s, 1, 4))
        m == MonthField(SubSeq(s, 6, second - 1))
        d == DayField(SubSeq(s, second + 1, Len(s)))
    IN  IF /\ Len(s) >= 8
           /\ AllDigits(SubSeq(s, 1, 4))
           /\ s[5] = 45
           /\ second # 0
           /\ m # 0 /\ d # 0
           /\ y >= 1
           /\ d <= DaysInMonth(y, m)
        THEN <<y, m, d>>
        ELSE None

\* str(n) of a natural number
RECURSIVE NatStr(_)
NatStr(n) ==
    IF n < 10 THEN <<48 + n>>
    ELSE NatStr(n \div 10) \o <<48 + (n % 10)>>

RECURSIVE ZeroPad(_, _)
ZeroPad(s, w) == IF Len(s) >= w THEN s ELSE ZeroPad(<<48>> \o s, w)

\* d.strftime("%Y-%m-%d"); %Y is zero-padded to 4 digits only where the
\* platform's C library does so
strftime(d, pads) ==
    (IF pads THEN ZeroPad(NatStr(d[1]), 4) ELSE NatStr(d[1]))
    \o <<45>> \o ZeroPad(NatStr(d[2]), 2) \o <<45>> \o ZeroPad(NatStr(d[3]), 2)

-----------------------------------------------------------------------------
(* Bounds of the model: requests received per route, days passed *)

MaxPurchases == 3
MaxViewedPurchases == 2
MaxViews == 1
MaxWatches == 3
MaxAlerts == 2
MaxTicks == 1

MaxWatchPurchases == 2
-----------------------------------------------------------------------------
(* Tables, requests and responses *)

\* a form field the request does not carry: request.form[...] raises
\* BadRequestKeyError (HTTP 400)
Missing == <<-1>>

NoResponse == [status |-> 0, via |-> "none"]
Redirect(branch) == [status |-> 302, via |-> branch]
Failure(code, exception) == [status |-> code, via |-> exception]


\* a worker thread between requests
Idle ==
    [handler |-> "", form |-> None, args |-> None, row |-> None,
     stock_rows |-> None, watchlist_rows |-> None, alert_rows |-> None,
     response |-> NoResponse]

\* what a REAL column gives back for a bound float: NaN is stored as NULL,
\* and the sign of a zero is not kept
StoreReal(x) ==
    IF IsNaN(x) THEN None
    ELSE IF IsZero(x) THEN FZero(FALSE)
    ELSE x

\* c.execute("SELECT ... FROM stocks WHERE symbol=?").fetchone(): <<>> or <<row>>
SelectStock(table, symbol) ==
    LET hits == {i \in 1..Len(table) : table[i].symbol = symbol}
    IN  IF hits = {} THEN <<>> ELSE <<table[CHOOSE i \in hits : TRUE]>>

\* lines 69-73: a date that does not parse, or is after today, becomes today
ClampedArgs(symbol, quantity, buy_price, buy_date_str, notes, parsed, now, pads) ==
    IF parsed = None \/ DateLess(now, parsed)
    THEN [error |-> "", symbol |-> symbol, quantity |-> quantity,
          buy_price |-> buy_price, buy_date |-> now,
          buy_date_str |-> strftime(now, pads), notes |-> notes]
    ELSE [error |-> "", symbol |-> symbol, quantity |-> quantity,
          buy_price |-> buy_price, buy_date |-> parsed,
          buy_date_str |-> buy_date_str, notes |-> notes]

\* lines 63-67 once int() and float() have returned quantity and buy_price
ParsedArgs(form, quantity, buy_price, now, pads) ==
    IF form.symbol = Missing \/ form.quantity = Missing THEN
        [error |-> "BadRequestKeyError"]
    ELSE IF quantity = ValueError THEN [error |-> "ValueError"]
    ELSE IF form.buy_price = Missing THEN [error |-> "BadRequestKeyError"]
    ELSE IF buy_price = ValueError THEN [error |-> "ValueError"]
    ELSE IF form.buy_date = Missing THEN [error |-> "BadRequestKeyError"]
    ELSE ClampedArgs(Strip(Upper(form.symbol)), quantity[1], buy_price,
                     form.buy_date,
                     IF form.notes = Missing THEN <<>> ELSE Strip(form.notes),
                     parse_date(form.buy_date), now, pads)

\* line 82
MergedQuantity(row, a) == ZAdd(row.quantity, a.quantity)

\* line 83 for the quantity new_qty of line 82: the exception it raises, or ""
MergeErrorWith(row, a, new_qty) ==
    IF row.buy_price = None THEN "TypeError"
    ELSE IF FloatOfInt(a.quantity) = <<>> THEN "OverflowError"
    ELSE IF FloatOfInt(new_qty) = <<>> THEN "OverflowError"
    ELSE IF new_qty = ZZero THEN "ZeroDivisionError"
    ELSE ""

\* line 83: the exception it raises, or ""
MergeError(row, a) == MergeErrorWith(row, a, MergedQuantity(row, a))

\* line 83 with the mean of the two prices taken without their quantities
MergedPriceUnweighted(row, a) ==
    FDiv(FAdd(row.buy_price, a.buy_price), FloatOfInt(ZInt(2)))

\* line 83
MergedPrice(row, a) ==
    FDiv(FAdd(FMul(row.buy_price, FloatOfInt(row.quantity)),
              FMul(a.buy_price, FloatOfInt(a.quantity))),
         FloatOfInt(MergedQuantity(row, a)))

\* lines 85-86
MergedDate(row, a) ==
    LET parsed == parse_date(row.buy_date)
        old_date == IF parsed = None THEN a.buy_date ELSE parsed
    IN  IF DateLess(a.buy_date, old_date) THEN a.buy_date ELSE old_date

\* lines 88-92: UPDATE stocks SET ... WHERE symbol=?
UpdateStock(table, row, a, pads) ==
    [i \in 1..Len(table) |->
        IF table[i].symbol = a.symbol
        THEN [table[i] EXCEPT !.quantity = MergedQuantity(row, a),
                              !.buy_price = StoreReal(MergedPrice(row, a)),
                              !.buy_date = strftime(MergedDate(row, a), pads),
                              !.notes = a.notes]
        ELSE table[i]]

\* lines 94-97: INSERT INTO stocks
InsertStock(table, a) ==
    Append(table, [id |-> Len(table) + 1,
                   symbol |-> a.symbol,
                   quantity |-> a.quantity,
                   buy_price |-> StoreReal(a.buy_price),
                   buy_date |-> a.buy_date_str,
                   notes |-> a.notes])

\* history: the purchases POST / has recorded for each symbol, in order
Recorded(h, a) ==
    [s \in DOMAIN h \cup {a.symbol} |->
        IF s = a.symbol
        THEN Append(IF s \in DOMAIN h THEN h[s] ELSE <<>>,
                    [quantity |-> a.quantity, buy_price |-> a.buy_price,
                     buy_date |-> a.buy_date])
        ELSE h[s]]

-----------------------------------------------------------------------------
(* GET /: the valuation pass (lines 104-199) *)

\* lines 138-147 with the boundary day counted as long
HoldingTypeAtLeast(d, now) ==
    IF d = None THEN "N/A"
    ELSE IF DaysBetween(now, d) >= 365 THEN "Long"
    ELSE "Short"

\* lines 138-147: the holding period of a position bought on d (None: the
\* stored date does not parse)
HoldingType(d, now) ==
    IF d = None THEN "N/A"
    ELSE IF DaysBetween(now, d) > 365 THEN "Long"
    ELSE "Short"

\* lines 140-147 with every position that is not Long counted as Short
BucketOrElse(total, bucket, holding_type, pl) ==
    IF holding_type = bucket \/ (bucket = "Short" /\ holding_type = "N/A")
    THEN FAdd(total, pl)
    ELSE total

\* lines 144 and 147: pl is added to the total of the position's own bucket
Bucket(total, bucket, holding_type, pl) ==
    IF holding_type = bucket THEN FAdd(total, pl) ELSE total

\* lines 133-161: pl and the entry appended to portfolio
PositionEntry(row, invalid, live_val, holding_type, invested, current, pl) ==
    [invested |-> invested,
     current |-> current,
     pl |-> pl,
     holding_type |-> holding_type,
     entry |-> [symbol |-> row.symbol,
                qty |-> row.quantity,
                bp |-> Round(row.buy_price),
                live |-> Round(live_val),
                invest |-> Round(invested),
                current |-> Round(current),
                profit |-> Round(pl),
                notes |-> row.notes,
                buy_date |-> row.buy_date,
                holding_type |-> holding_type,
                invalid |-> invalid]]

\* line 133
PositionProfit(row, invalid, live_val, holding_type, invested, current) ==
    PositionEntry(row, invalid, live_val, holding_type, invested, current,
                  FSub(current, invested))

\* lines 131-132
PositionValued(row, invalid, live_val, holding_type) ==
    PositionProfit(row, invalid, live_val, holding_type,
                   FMul(FloatOfInt(row.quantity), row.buy_price),
                   FMul(FloatOfInt(row.quantity), live_val))

\* one iteration of the loop of lines 126-161 for a row and its live price
Position(row, live_price, now) ==
    PositionValued(row,
                   live_price = None,
                   IF live_price # None THEN live_price ELSE FZero(FALSE),
                   HoldingType(parse_date(row.buy_date), now))

\* lines 135-136, 144, 147 and 149: the locals after one more position p
Accumulated(acc, p) ==
    [portfolio |-> Append(acc.portfolio, p.entry),
     total_invested |-> FAdd(acc.total_invested, p.invested),
     total_value |-> FAdd(acc.total_value, p.current),
     total_long_pl |-> Bucket(acc.total_long_pl, "Long", p.holding_type, p.pl),
     total_short_pl |-> Bucket(acc.total_short_pl, "Short", p.holding_type, p.pl)]

\* the locals of lines 119-123 after the first k rows
RECURSIVE Valuation(_, _, _, _)
Valuation(rows, prices, now, k) ==
    IF k = 0 THEN
        [portfolio |-> <<>>,
         total_invested |-> FZero(FALSE),
         total_value |-> FZero(FALSE),
         total_long_pl |-> FZero(FALSE),
         total_short_pl |-> FZero(FALSE)]
    ELSE Accumulated(Valuation(rows, prices, now, k - 1),
                     Position(rows[k], prices[k], now))

\* line 163
TotalProfit(v) == FSub(v.total_value, v.total_invested)

\* lines 167-175 with the hit decided by the shown price alone
AlertEntryZeroHit(row, lp) ==
    LET live_val == IF lp # None THEN lp ELSE FZero(FALSE)
    IN  [symbol |-> row.symbol,
         target |-> Round(row.target),
         live |-> Round(live_val),
         hit |-> FGeq(live_val, row.target)]

\* lines 167-175: one alert and the live price fetched for it
AlertEntry(row, lp) ==
    LET live_val == IF lp # None THEN lp ELSE FZero(FALSE)
    IN  [symbol |-> row.symbol,
         target |-> Round(row.target),
         live |-> Round(live_val),
         hit |-> lp # None /\ FGeq(live_val, row.target)]

\* line 42
TRENDING ==
    <<<<84, 83, 76, 65>>, <<65, 65, 80, 76>>, <<71, 79, 79, 71, 76>>,
      <<77, 69, 84, 65>>, <<78, 86, 68, 65>>, <<77, 83, 70, 84>>,
      <<65, 77, 90, 78>>, <<78, 70, 76, 88>>>>

\* lines 178-184
Trending(trending_prices) ==
    [i \in 1..Len(TRENDING) |->
        [symbol |-> TRENDING[i],
         price |-> Round(IF trending_prices[i] # None THEN trending_prices[i]
                         ELSE FZero(FALSE))]]

\* lines 188-199: what the template is given
Context(v, alert_entries, watch_rows, trending) ==
    [portfolio |-> v.portfolio,
     total_invested |-> Round(v.total_invested),
     total_value |-> Round(v.total_value),
     total_profit |-> Round(TotalProfit(v)),
     total_long_pl |-> Round(v.total_long_pl),
     total_short_pl |-> Round(v.total_short_pl),
     watchlist |-> [i \in 1..Len(watch_rows) |-> watch_rows[i].symbol],
     alerts |-> alert_entries,
     trending |-> trending]

\* lines 188-199: the page, with the locals of the pass beside what the
\* template is given
Page(v, alert_entries, watchlist_rows, now, prices, alert_prices, trending) ==
    [status |-> 200,
     via |-> "render_template",
     prices |-> prices,
     alert_prices |-> alert_prices,
     locals |-> [today |-> now,
                 total_invested |-> v.total_invested,
                 total_value |-> v.total_value,
                 total_profit |-> TotalProfit(v),
                 total_long_pl |-> v.total_long_pl,
                 total_short_pl |-> v.total_short_pl],
     context |-> Context(v, alert_entries, watchlist_rows, trending)]

\* lines 118-199 on the rows read: the exception raised (a NULL buy_price at
\* line 131, a NULL target at line 172), or the page
Render(stock_rows, watchlist_rows, alert_rows, now, prices, alert_prices, trending_prices) ==
    IF \E i \in 1..Len(stock_rows) : stock_rows[i].buy_price = None
    THEN Failure(500, "TypeError")
    ELSE IF \E i \in 1..Len(alert_rows) : alert_rows[i].target = None
    THEN Failure(500, "TypeError")
    ELSE Page(Valuation(stock_rows, prices, now, Len(stock_rows)),
              [i \in 1..Len(alert_rows) |-> AlertEntry(alert_rows[i], alert_prices[i])],
              watchlist_rows, now, prices, alert_prices,
              Trending(trending_prices))

-----------------------------------------------------------------------------
(* The handlers, each run by a worker thread of the development server *)

Threads == {1, 2}

Begun(handler, form) == [Idle EXCEPT !.handler = handler, !.form = form]

\* POST /, lines 62-73, with the form fields read as a: a missing field is
\* answered 400, a ValueError 500, and otherwise the handler goes on
PostParsed(t, form, a) ==
    /\ pc[t] = "idle"
    /\ IF a.error = "BadRequestKeyError" THEN
           /\ frame' = [frame EXCEPT ![t] =
                  [Begun("post", form) EXCEPT !.response = Failure(400, a.error)]]
           /\ pc' = pc
       ELSE IF a.error # "" THEN
           /\ frame' = [frame EXCEPT ![t] =
                  [Begun("post", form) EXCEPT !.response = Failure(500, a.error)]]
           /\ pc' = pc
       ELSE
           /\ frame' = [frame EXCEPT ![t] = [Begun("post", form) EXCEPT !.args = a]]
           /\ pc' = [pc EXCEPT ![t] = "select"]
    /\ served' = [served EXCEPT !.post = @ + 1]
    /\ overlapped' = (overlapped \/ \E u \in Threads \ {t} : pc[u] \in {"select", "write"})
    /\ UNCHANGED <<stocks, watchlist, alerts, today, padsYear, locked, lots>>

\* POST /, lines 62-73: the form is read and the date clamped to today
PostRequest(t, form) ==
    PostParsed(t, form, ParsedArgs(form, ParseInt(form.quantity),
                                   ParseFloat(form.buy_price), today, padsYear))

\* POST /, lines 75-78: the row of the symbol is read
PostSelect(t) ==
    /\ pc[t] = "select"
    /\ frame' = [frame EXCEPT ![t].row = SelectStock(stocks, frame[t].args.symbol)]
    /\ pc' = [pc EXCEPT ![t] = "write"]
    /\ UNCHANGED <<stocks, watchlist, alerts, today, padsYear, locked, lots,
                   served, overlapped>>

\* POST /, lines 80-101: the row read is merged and written, or a new row
\* inserted, and the write committed
PostWrite(t) ==
    LET a == frame[t].args
        row == frame[t].row
        answer(r) == /\ frame' = [frame EXCEPT ![t].response = r]
                     /\ pc' = [pc EXCEPT ![t] = "idle"]
        fails(exception) == /\ answer(Failure(500, exception))
                            /\ UNCHANGED <<stocks, lots>>
    IN  /\ pc[t] = "write"
        /\ IF row # <<>> /\ MergeError(row[1], a) # "" THEN
               fails(MergeError(row[1], a)) /\ UNCHANGED locked
           ELSE IF ~ZFitsInt64(IF row # <<>> THEN MergedQuantity(row[1], a)
                               ELSE a.quantity) THEN
               \* the int does not fit SQLite's INTEGER
               fails("OverflowError") /\ UNCHANGED locked
           ELSE IF locked THEN
               \* another connection holds the write lock
               fails("OperationalError") /\ UNCHANGED locked
           ELSE IF row # <<>> THEN
               /\ stocks' = UpdateStock(stocks, row[1], a, padsYear)
               /\ lots' = Recorded(lots, a)
               /\ answer(Redirect("UPDATE"))
               /\ UNCHANGED locked
           ELSE IF SelectStock(stocks, a.symbol) # <<>> THEN
               \* UNIQUE(symbol): the INSERT fails inside its transaction,
               \* which holds the write lock for as long as the connection
               \* of the abandoned frame is kept
               /\ fails("IntegrityError")
               /\ locked' \in BOOLEAN
           ELSE
               /\ stocks' = InsertStock(stocks, a)
               /\ lots' = Recorded(lots, a)
               /\ answer(Redirect("INSERT"))
               /\ UNCHANGED locked
        /\ UNCHANGED <<watchlist, alerts, today, padsYear, served, overlapped>>

\* GET /, lines 104-108
GetStocks(t) ==
    /\ pc[t] = "idle"
    /\ frame' = [frame EXCEPT ![t] = [Begun("get", None) EXCEPT !.stock_rows = stocks]]
    /\ pc' = [pc EXCEPT ![t] = "watchlist"]
    /\ served' = [served EXCEPT !.get = @ + 1]
    /\ UNCHANGED <<stocks, watchlist, alerts, today, padsYear, locked, lots, overlapped>>

\* GET /, lines 110-111
GetWatchlist(t) ==
    /\ pc[t] = "watchlist"
    /\ frame' = [frame EXCEPT ![t].watchlist_rows = watchlist]
    /\ pc' = [pc EXCEPT ![t] = "alerts"]
    /\ UNCHANGED <<stocks, watchlist, alerts, today, padsYear, locked, lots,
                   served, overlapped>>

\* GET /, lines 113-116
GetAlerts(t) ==
    /\ pc[t] = "alerts"
    /\ frame' = [frame EXCEPT ![t].alert_rows = alerts]
    /\ pc' = [pc EXCEPT ![t] = "render"]
    /\ UNCHANGED <<stocks, watchlist, alerts, today, padsYear, locked, lots,
                   served, overlapped>>

\* GET /, lines 118-199; prices, alert_prices and trending_prices are what
\* get_live_price returns at lines 127, 168 and 180
GetRender(t, prices, alert_prices, trending_prices) ==
    /\ pc[t] = "render"
    /\ frame' = [frame EXCEPT ![t].response =
           Render(frame[t].stock_rows, frame[t].watchlist_rows, frame[t].alert_rows,
                  today, prices, alert_prices, trending_prices)]
    /\ pc' = [pc EXCEPT ![t] = "idle"]
    /\ UNCHANGED <<stocks, watchlist, alerts, today, padsYear, locked, lots,
                   served, overlapped>>

-----------------------------------------------------------------------------
(* POST /add_watch (lines 201-214) and POST /add_alert (lines 216-225) *)

\* add_watch on a table whose symbol column is not UNIQUE
add_watchNoUnique(t, form) ==
    LET symbol == Strip(Upper(form.symbol))
        answer(r) == frame' = [frame EXCEPT ![t] =
                         [Begun("add_watch", form) EXCEPT !.response = r]]
    IN  /\ pc[t] = "idle"
        /\ IF form.symbol = Missing THEN
               answer(Failure(400, "BadRequestKeyError")) /\ UNCHANGED watchlist
           ELSE IF symbol = <<>> THEN
               answer(Redirect("not symbol")) /\ UNCHANGED watchlist
           ELSE IF locked THEN
               answer(Failure(500, "OperationalError")) /\ UNCHANGED watchlist
           ELSE
               /\ watchlist' = Append(watchlist, [id |-> Len(watchlist) + 1,
                                                  symbol |-> symbol])
               /\ answer(Redirect("INSERT"))
        /\ served' = [served EXCEPT !.add_watch = @ + 1]
        /\ UNCHANGED <<stocks, alerts, today, padsYear, locked, lots, pc, overlapped>>

add_watch(t, form) ==
    LET symbol == Strip(Upper(form.symbol))
        answer(r) == frame' = [frame EXCEPT ![t] =
                         [Begun("add_watch", form) EXCEPT !.response = r]]
    IN  /\ pc[t] = "idle"
        /\ IF form.symbol = Missing THEN
               answer(Failure(400, "BadRequestKeyError")) /\ UNCHANGED watchlist
           ELSE IF symbol = <<>> THEN
               answer(Redirect("not symbol")) /\ UNCHANGED watchlist
           ELSE IF locked THEN
               answer(Failure(500, "OperationalError")) /\ UNCHANGED watchlist
           ELSE IF \E i \in 1..Len(watchlist) : watchlist[i].symbol = symbol THEN
               answer(Redirect("IntegrityError")) /\ UNCHANGED watchlist
           ELSE
               /\ watchlist' = Append(watchlist, [id |-> Len(watchlist) + 1,
                                                  symbol |-> symbol])
               /\ answer(Redirect("INSERT"))
        /\ served' = [served EXCEPT !.add_watch = @ + 1]
        /\ UNCHANGED <<stocks, alerts, today, padsYear, locked, lots, pc, overlapped>>

\* add_alert once float() has returned target
AlertParsed(t, form, target) ==
    LET answer(r) == frame' = [frame EXCEPT ![t] =
                         [Begun("add_alert", form) EXCEPT !.response = r]]
    IN  /\ pc[t] = "idle"
        /\ IF form.symbol = Missing \/ form.target = Missing THEN
               answer(Failure(400, "BadRequestKeyError")) /\ UNCHANGED alerts
           ELSE IF target = ValueError THEN
               answer(Failure(500, "ValueError")) /\ UNCHANGED alerts
           ELSE IF locked THEN
               answer(Failure(500, "OperationalError")) /\ UNCHANGED alerts
           ELSE
               /\ alerts' = Append(alerts, [id |-> Len(alerts) + 1,
                                            symbol |-> Strip(Upper(form.symbol)),
                                            target |-> StoreReal(target)])
               /\ answer(Redirect("INSERT"))
        /\ served' = [served EXCEPT !.add_alert = @ + 1]
        /\ UNCHANGED <<stocks, watchlist, today, padsYear, locked, lots, pc, overlapped>>

add_alert(t, form) == AlertParsed(t, form, ParseFloat(form.target))

-----------------------------------------------------------------------------
(* The clock *)

StartDay == <<2024, 12, 31>>

\* midnight passes: date.today() moves on
Tick ==
    /\ DaysBetween(today, StartDay) < MaxTicks
    /\ today' = NextDay(today)
    /\ UNCHANGED <<stocks, watchlist, alerts, padsYear, locked, pc, frame, lots,
                   served, overlapped>>

-----------------------------------------------------------------------------
(* Each specification of this module lets the server receive one family of  *)
(* requests, with the form values that family is about; the handlers and    *)
(* the threads are the same in all.                                         *)

Init ==
    /\ stocks = <<>>
    /\ watchlist = <<>>
    /\ alerts = <<>>
    /\ today = StartDay
    /\ padsYear \in BOOLEAN
    /\ locked = FALSE
    /\ pc = [t \in Threads |-> "idle"]
    /\ frame = [t \in Threads |-> Idle]
    /\ lots = <<>>
    /\ served = [post |-> 0, get |-> 0, add_watch |-> 0, add_alert |-> 0]
    /\ overlapped = FALSE

\* float("150.51"), the double 150.5099999999999909050529822707176208496...
Price_150_51 == <<"fin", FALSE, <<9175, 31457, 26664, 18>>, -42>>

\* what get_live_price returns: None or a price
LivePrices == {None, Price_150_51}

\* the steps of a request that has been received
Select == \E t \in Threads : PostSelect(t)
Write == \E t \in Threads : PostWrite(t)
ViewWatchlist == \E t \in Threads : GetWatchlist(t)
ViewAlerts == \E t \in Threads : GetAlerts(t)
\* the page is rendered with each price None or one of live_prices, and the
\* prices of the TRENDING symbols none, or all
Valued(live_prices) ==
    \E t \in Threads :
        \E prices \in [1..Len(frame[t].stock_rows) -> live_prices] :
            \E alert_prices \in [1..Len(frame[t].alert_rows) -> live_prices] :
                \E trending_prices \in {[i \in 1..Len(TRENDING) |-> p] : p \in LivePrices} :
                    GetRender(t, prices, alert_prices, trending_prices)

\* GET / is received
ViewStocks == served.get < MaxViews /\ \E t \in Threads : GetStocks(t)

-----------------------------------------------------------------------------
(* Purchases of two symbols ("a " and "B"), 10 @ 100 and 10 @ 200, undated *)

LedgerForms ==
    {[symbol |-> sym, quantity |-> NatStr(10), buy_price |-> price,
      buy_date |-> <<>>, notes |-> <<110, 32>>] :
        sym \in {<<97, 32>>, <<66>>},
        price \in {NatStr(100), NatStr(200)}}

Next ==
    \/ /\ served.post < MaxPurchases
       /\ \E t \in Threads : \E form \in LedgerForms : PostRequest(t, form)
    \/ Select
    \/ Write

Spec == Init /\ [][Next]_vars

-----------------------------------------------------------------------------
(* Properties of the ledger *)

Rows == 1..Len(stocks)

\* a thread has answered a request of the handler
Finished(t, handler) == pc[t] = "idle" /\ frame[t].handler = handler

\* the summed quantity and the summed cost of the first k purchases of a symbol
RECURSIVE LotsQuantity(_, _)
LotsQuantity(h, k) ==
    IF k = 0 THEN ZZero ELSE ZAdd(LotsQuantity(h, k - 1), h[k].quantity)

RECURSIVE LotsCost(_, _)
LotsCost(h, k) ==
    IF k = 0 THEN FZero(FALSE)
    ELSE FAdd(LotsCost(h, k - 1), FMul(h[k].buy_price, FloatOfInt(h[k].quantity)))

\* positive quantities and non-negative prices
PlainLots(h) ==
    \A k \in 1..Len(h) :
        /\ ~h[k].quantity[1] /\ h[k].quantity # ZZero
        /\ IsFinite(h[k].buy_price) /\ ~h[k].buy_price[2]

\* C1: after purchases handled one at a time, every symbol with recorded
\* purchases has one position; it holds the summed quantity of those
\* purchases, and its avgCost times its quantity is their summed cost;
\* 10 @ 100 then 10 @ 200 gives 20 @ 150.
C1_WeightedAverage ==
    ~overlapped =>
        \A s \in DOMAIN lots :
            PlainLots(lots[s]) =>
                /\ Cardinality({i \in Rows : stocks[i].symbol = s}) = 1
                /\ \A i \in Rows :
                    stocks[i].symbol = s =>
                        /\ stocks[i].quantity = LotsQuantity(lots[s], Len(lots[s]))
                        /\ FEq(FMul(stocks[i].buy_price, FloatOfInt(stocks[i].quantity)),
                               LotsCost(lots[s], Len(lots[s])))
                        /\ (/\ Len(lots[s]) = 2
                            /\ \A k \in 1..2 : lots[s][k].quantity = ZInt(10)
                            /\ FEq(LotsCost(lots[s], 2), FloatOfInt(ZInt(3000))))
                             => /\ stocks[i].quantity = ZInt(20)
                                /\ FEq(stocks[i].buy_price, FloatOfInt(ZInt(150)))

FAbs(x) == IF x[2] THEN FNeg(x) ELSE x

\* 2^-50
Eps == Finite(FALSE, <<1>>, -50)

\* |x - y| <= k * 2^-50 * scale
Within(x, y, k, scale) ==
    FGeq(FMul(FMul(FloatOfInt(ZInt(k)), Eps), scale), FAbs(FSub(x, y)))

\* C1, as amended: after purchases handled one at a time, every symbol with
\* recorded purchases has one position; it holds the summed quantity of those
\* purchases, and its avgCost times its quantity is their summed cost up to
\* the rounding of the double arithmetic (a relative error of at most
\* n * 2^-50 after n purchases); 10 @ 100 then 10 @ 200 gives exactly 20 @ 150.
C1_WeightedAverageRounded ==
    ~overlapped =>
        \A s \in DOMAIN lots :
            PlainLots(lots[s]) =>
                /\ Cardinality({i \in Rows : stocks[i].symbol = s}) = 1
                /\ \A i \in Rows :
                    stocks[i].symbol = s =>
                        /\ stocks[i].quantity = LotsQuantity(lots[s], Len(lots[s]))
                        /\ Within(FMul(stocks[i].buy_price, FloatOfInt(stocks[i].quantity)),
                                  LotsCost(lots[s], Len(lots[s])),
                                  Len(lots[s]),
                                  LotsCost(lots[s], Len(lots[s])))
                        /\ (/\ Len(lots[s]) = 2
                            /\ \A k \in 1..2 : lots[s][k].quantity = ZInt(10)
                            /\ FEq(LotsCost(lots[s], 2), FloatOfInt(ZInt(3000))))
                             => /\ stocks[i].quantity = ZInt(20)
                                /\ FEq(stocks[i].buy_price, FloatOfInt(ZInt(150)))

\* three purchases merged one after the other into an avgCost that is not
\* their exact mean: 10 @ 100, 10 @ 100, 10 @ 200 is stored as
\* 30 @ 133.33333333333334
C1_Witness ==
    /\ ~overlapped
    /\ \E i \in Rows :
        /\ stocks[i].symbol \in DOMAIN lots
        /\ Len(lots[stocks[i].symbol]) = 3
        /\ PlainLots(lots[stocks[i].symbol])
        /\ stocks[i].quantity = ZInt(30)
        /\ FEq(LotsCost(lots[stocks[i].symbol], 3), FloatOfInt(ZInt(4000)))
        /\ ~FEq(FMul(stocks[i].buy_price, FloatOfInt(stocks[i].quantity)),
                FloatOfInt(ZInt(4000)))

\* the avgCost stored after the first k purchases of a symbol, merged one
\* after the other
RECURSIVE SerialPrice(_, _)
SerialPrice(h, k) ==
    IF k = 1 THEN StoreReal(h[1].buy_price)
    ELSE StoreReal(MergedPrice([quantity |-> LotsQuantity(h, k - 1),
                                buy_price |-> SerialPrice(h, k - 1)], h[k]))

\* C2: once the requests received have been answered, none has failed and
\* every symbol purchased has one position, which holds the summed quantity
\* of all the purchases of the symbol and the weighted mean that includes
\* every one of them, whatever the order of the requests' reads and writes.
C2_NoLostPurchase ==
    (\A t \in Threads : pc[t] = "idle") =>
        /\ \A t \in Threads : Finished(t, "post") => frame[t].response.status = 302
        /\ \A s \in DOMAIN lots :
            /\ Cardinality({i \in Rows : stocks[i].symbol = s}) = 1
            /\ \A i \in Rows :
                stocks[i].symbol = s =>
                    /\ stocks[i].quantity = LotsQuantity(lots[s], Len(lots[s]))
                    /\ stocks[i].buy_price = SerialPrice(lots[s], Len(lots[s]))

-----------------------------------------------------------------------------
(* Purchases and valuation: a symbol bought in 2023 and one bought today or  *)
(* in the year 999, and a price "nan"                                        *)

ViewedForms ==
    {[symbol |-> f[1], quantity |-> f[2], buy_price |-> f[3],
      buy_date |-> f[4], notes |-> <<>>] :
        f \in {<<<<97, 32>>, NatStr(10), NatStr(100),
                 <<50, 48, 50, 51, 45, 48, 49, 45, 48, 49>>>>,       \* "2023-01-01"
               <<<<97, 32>>, NatStr(1), <<110, 97, 110>>,
                 <<50, 48, 50, 51, 45, 48, 49, 45, 48, 49>>>>,       \* "2023-01-01"
               <<<<66>>, NatStr(10), NatStr(100), <<>>>>,
               <<<<66>>, NatStr(10), NatStr(200), <<>>>>,
               <<<<66>>, NatStr(1), <<110, 97, 110>>, <<>>>>,
               <<<<66>>, NatStr(10), NatStr(100),
                 <<48, 57, 57, 57, 45, 48, 49, 45, 48, 49>>>>}}      \* "0999-01-01"

\* positions are valued at either of two prices, the second float("99.99")
NextView ==
    \/ /\ served.post < MaxViewedPurchases
       /\ \E t \in Threads : \E form \in ViewedForms : PostRequest(t, form)
    \/ Select
    \/ Write
    \/ ViewStocks
    \/ ViewWatchlist
    \/ ViewAlerts
    \/ Valued(LivePrices \cup {<<"fin", FALSE, <<17039, 20971, 32112, 199>>, -46>>})

SpecView == Init /\ [][NextView]_vars

-----------------------------------------------------------------------------
(* Properties of the valuation pass, stated on the rows the pass has read,  *)
(* the prices it was given and the page it answered with                    *)

ViewRows(t) == 1..Len(frame[t].stock_rows)

InvestedOf(t, i) ==
    FMul(FloatOfInt(frame[t].stock_rows[i].quantity), frame[t].stock_rows[i].buy_price)
CurrentOf(t, i) ==
    IF frame[t].response.prices[i] = None THEN FZero(FALSE)
    ELSE FMul(FloatOfInt(frame[t].stock_rows[i].quantity), frame[t].response.prices[i])
ProfitOf(t, i) == FSub(CurrentOf(t, i), InvestedOf(t, i))
ClassOf(t, i) == frame[t].response.context.portfolio[i].holding_type

\* the sum of f(i) over the first k rows that are in set, in row order
RECURSIVE FSum(_, _, _)
FSum(f(_), set, k) ==
    IF k = 0 THEN FZero(FALSE)
    ELSE IF k \in set THEN FAdd(FSum(f, set, k - 1), f(k))
    ELSE FSum(f, set, k - 1)

\* C6: a valuation pass completes with one entry per stored position for
\* every combination of available and unavailable prices; an entry without a
\* price has current 0, profit -(quantity x avgCost) and invalid set, one with
\* a price has invalid clear; every figure of an entry depends on its own row
\* and price only; total_invested counts every position and total_value the
\* priced ones.
C6_UnavailableDegrades ==
    \A t \in Threads :
        Finished(t, "get") =>
            /\ frame[t].response.status = 200
            /\ Len(frame[t].response.context.portfolio) = Len(frame[t].stock_rows)
            /\ \A i \in ViewRows(t) :
                LET e == frame[t].response.context.portfolio[i]
                    lp == frame[t].response.prices[i]
                    row == frame[t].stock_rows[i]
                IN  /\ e.symbol = row.symbol
                    /\ e.qty = row.quantity
                    /\ e.invest = Round(InvestedOf(t, i))
                    /\ e.invalid = (lp = None)
                    /\ lp = None =>
                        /\ FEq(e.current, FZero(FALSE))
                        /\ FEq(e.live, FZero(FALSE))
                        /\ FEq(e.profit, FNeg(e.invest))
                    /\ lp # None =>
                        /\ e.current = Round(FMul(FloatOfInt(row.quantity), lp))
                        /\ e.live = Round(lp)
                        /\ e.profit = Round(FSub(FMul(FloatOfInt(row.quantity), lp),
                                                 InvestedOf(t, i)))
            /\ frame[t].response.locals.total_invested
                 = FSum(LAMBDA i : InvestedOf(t, i), ViewRows(t), Len(frame[t].stock_rows))
            /\ frame[t].response.locals.total_value
                 = FSum(LAMBDA i : CurrentOf(t, i), ViewRows(t), Len(frame[t].stock_rows))

\* C7: on every page total_profit is total_value - total_invested;
\* total_long_pl and total_short_pl are the sums of the profit of the Long and
\* of the Short positions, N/A positions are in neither, and the two add up to
\* total_profit when no position is N/A.
C7_Aggregates ==
    \A t \in Threads :
        Finished(t, "get") /\ frame[t].response.status = 200 =>
            LET l == frame[t].response.locals
                n == Len(frame[t].stock_rows)
                profit(i) == ProfitOf(t, i)
                classified == {i \in ViewRows(t) : ClassOf(t, i) # "N/A"}
            IN  /\ FEq(l.total_profit, FSub(l.total_value, l.total_invested))
                /\ \A i \in ViewRows(t) : ClassOf(t, i) \in {"Long", "Short", "N/A"}
                /\ FEq(l.total_long_pl,
                       FSum(profit, {i \in ViewRows(t) : ClassOf(t, i) = "Long"}, n))
                /\ FEq(l.total_short_pl,
                       FSum(profit, {i \in ViewRows(t) : ClassOf(t, i) = "Short"}, n))
                /\ FEq(FAdd(l.total_long_pl, l.total_short_pl),
                       FSum(profit, classified, n))
                /\ classified = ViewRows(t)
                     => FEq(FAdd(l.total_long_pl, l.total_short_pl), l.total_profit)

\* quantities, avgCosts and prices that are finite and not negative
PlainView(t) ==
    \A i \in ViewRows(t) :
        /\ ~frame[t].stock_rows[i].quantity[1]
        /\ frame[t].stock_rows[i].buy_price # None
        /\ IsFinite(frame[t].stock_rows[i].buy_price)
        /\ ~frame[t].stock_rows[i].buy_price[2]
        /\ frame[t].response.prices[i] # None =>
              /\ IsFinite(frame[t].response.prices[i])
              /\ ~frame[t].response.prices[i][2]

\* C7, as amended: on every page, of the unrounded totals of the pass,
\* total_profit is total_value - total_invested; total_long_pl and
\* total_short_pl are the sums, in row order, of the profit of the Long and of
\* the Short positions, N/A positions are in neither, and when no position is
\* N/A and no quantity, avgCost or price is negative the two add up to
\* total_profit up to the rounding of the double arithmetic (at most
\* (n + 1) * 2^-50 * (total_value + total_invested) for n positions).
C7_AggregatesRounded ==
    \A t \in Threads :
        Finished(t, "get") /\ frame[t].response.status = 200 =>
            LET l == frame[t].response.locals
                n == Len(frame[t].stock_rows)
                profit(i) == ProfitOf(t, i)
                classified == {i \in ViewRows(t) : ClassOf(t, i) # "N/A"}
            IN  /\ FEq(l.total_profit, FSub(l.total_value, l.total_invested))
                /\ \A i \in ViewRows(t) : ClassOf(t, i) \in {"Long", "Short", "N/A"}
                /\ FEq(l.total_long_pl,
                       FSum(profit, {i \in ViewRows(t) : ClassOf(t, i) = "Long"}, n))
                /\ FEq(l.total_short_pl,
                       FSum(profit, {i \in ViewRows(t) : ClassOf(t, i) = "Short"}, n))
                /\ (classified = ViewRows(t) /\ PlainView(t))
                     => Within(FAdd(l.total_long_pl, l.total_short_pl), l.total_profit,
                               n + 1, FAdd(l.total_value, l.total_invested))

\* a page with a Long and a Short position, both priced, whose buckets add
\* up to -495.0000000000001 beside a total_profit of -495.0
C7_Witness ==
    \E t \in Threads :
        /\ Finished(t, "get")
        /\ frame[t].response.status = 200
        /\ PlainView(t)
        /\ \A i \in ViewRows(t) : ClassOf(t, i) # "N/A"
        /\ \E i, j \in ViewRows(t) :
            /\ ClassOf(t, i) = "Long" /\ frame[t].response.prices[i] # None
            /\ ClassOf(t, j) = "Short" /\ frame[t].response.prices[j] # None
        /\ ~FEq(FAdd(frame[t].response.locals.total_long_pl,
                     frame[t].response.locals.total_short_pl),
                frame[t].response.locals.total_profit)

-----------------------------------------------------------------------------
(* Purchases with every kind of date, and valuation as the days pass *)

DatedForms ==
    {[symbol |-> f[1], quantity |-> NatStr(1), buy_price |-> NatStr(1),
      buy_date |-> f[2], notes |-> <<>>] :
        f \in {<<<<97, 32>>, <<50, 48, 50, 52, 45, 48, 49, 45, 48, 49>>>>,  \* "2024-01-01"
               <<<<97, 32>>, <<48, 57, 57, 57, 45, 48, 49, 45, 48, 49>>>>,  \* "0999-01-01"
               <<<<97, 32>>, <<50, 48, 50, 53, 45, 48, 49, 45, 48, 49>>>>,  \* "2025-01-01"
               <<<<66>>, <<50, 48, 50, 52, 45, 49, 45, 50>>>>,              \* "2024-1-2"
               <<<<66>>, <<>>>>}}

NextDates ==
    \/ /\ served.post < MaxViewedPurchases
       /\ \E t \in Threads : \E form \in DatedForms : PostRequest(t, form)
    \/ Select
    \/ Write
    \/ ViewStocks
    \/ ViewWatchlist
    \/ ViewAlerts
    \/ Valued(LivePrices)
    \/ Tick

SpecDates == Init /\ [][NextDates]_vars

-----------------------------------------------------------------------------
(* Properties of the dates *)

DateOf(i) == parse_date(stocks[i].buy_date)

\* the earliest effective date of the first k purchases of a symbol
RECURSIVE EarliestDate(_, _)
EarliestDate(h, k) ==
    IF k = 1 THEN h[1].buy_date
    ELSE LET d == EarliestDate(h, k - 1)
         IN  IF DateLess(h[k].buy_date, d) THEN h[k].buy_date ELSE d

\* C3: after purchases handled one at a time, the openDate of every position
\* is the earliest effective date of the purchases recorded for its symbol.
C3_EarliestDate ==
    ~overlapped =>
        \A i \in Rows :
            stocks[i].symbol \in DOMAIN lots =>
                DateOf(i) = EarliestDate(lots[stocks[i].symbol],
                                         Len(lots[stocks[i].symbol]))

\* C4: every stored position has an openDate that parses and is not after
\* today, and no valuation pass classifies a position N/A.
C4_DatesParse ==
    /\ \A i \in Rows : DateOf(i) # None /\ ~DateLess(today, DateOf(i))
    /\ \A t \in Threads :
        Finished(t, "get") /\ frame[t].response.status = 200 =>
            \A i \in ViewRows(t) : ClassOf(t, i) # "N/A"

\* C8: on every page, a position whose stored date parses is Long exactly
\* when the pass ran more than 365 days after that date, and Short otherwise:
\* 365 days is Short, 366 days is Long.
C8_HoldingBoundary ==
    \A t \in Threads :
        Finished(t, "get") /\ frame[t].response.status = 200 =>
            \A i \in ViewRows(t) :
                LET d == parse_date(frame[t].stock_rows[i].buy_date)
                    now == frame[t].response.locals.today
                IN  d # None =>
                    /\ ClassOf(t, i) = "Long" <=> DaysBetween(now, d) > 365
                    /\ ClassOf(t, i) = "Short" <=> DaysBetween(now, d) <= 365
                    /\ d = <<2024, 1, 1>> /\ now = <<2024, 12, 31>>
                         => ClassOf(t, i) = "Short"
                    /\ d = <<2024, 1, 1>> /\ now = <<2025, 1, 1>>
                         => ClassOf(t, i) = "Long"
                    /\ d = <<2024, 1, 2>> /\ now = <<2025, 1, 1>>
                         => ClassOf(t, i) = "Short"

\* a page of 2025-01-01 with a position held 366 days beside one held 365
C8_Witness ==
    \E t \in Threads :
        /\ Finished(t, "get")
        /\ frame[t].response.status = 200
        /\ frame[t].response.locals.today = <<2025, 1, 1>>
        /\ \E i, j \in ViewRows(t) :
            /\ parse_date(frame[t].stock_rows[i].buy_date) = <<2024, 1, 1>>
            /\ ClassOf(t, i) = "Long"
            /\ parse_date(frame[t].stock_rows[j].buy_date) = <<2024, 1, 2>>
            /\ ClassOf(t, j) = "Short"

-----------------------------------------------------------------------------
(* Alerts with targets at, above and below the price, 0, -1 and "nan" *)

AlertForms ==
    {[symbol |-> <<97, 32>>, target |-> target] :
        target \in {<<49, 53, 48, 46, 53, 49>>,       \* "150.51"
                    <<49, 53, 48, 46, 53, 50>>,       \* "150.52"
                    <<48>>,                           \* "0"
                    <<45, 49>>,                       \* "-1"
                    <<110, 97, 110>>}}                \* "nan"

NextAlerts ==
    \/ /\ served.add_alert < MaxAlerts
       /\ \E t \in Threads : \E form \in AlertForms : add_alert(t, form)
    \/ ViewStocks
    \/ ViewWatchlist
    \/ ViewAlerts
    \/ Valued(LivePrices)

SpecAlerts == Init /\ [][NextAlerts]_vars

AlertRowsOf(t) == 1..Len(frame[t].alert_rows)

\* C9: on every page, an alert is hit exactly when its price is available and
\* at least its target (a price equal to the target hits); without a price
\* the alert shows live 0 and is not hit, whatever its target.
C9_AlertHit ==
    \A t \in Threads :
        Finished(t, "get") /\ frame[t].response.status = 200 =>
            /\ Len(frame[t].response.context.alerts) = Len(frame[t].alert_rows)
            /\ \A i \in AlertRowsOf(t) :
                LET e == frame[t].response.context.alerts[i]
                    lp == frame[t].response.alert_prices[i]
                    target == frame[t].alert_rows[i].target
                IN  /\ e.hit <=> (lp # None /\ ~FLess(lp, target))
                    /\ (lp # None /\ lp = target) => e.hit
                    /\ lp = None => ~e.hit /\ FEq(e.live, FZero(FALSE))

\* a page with an alert of target 0 that has no price beside one whose
\* price equals its target
C9_Witness ==
    \E t \in Threads :
        /\ Finished(t, "get")
        /\ frame[t].response.status = 200
        /\ \E i, j \in AlertRowsOf(t) :
            /\ frame[t].alert_rows[i].target = FZero(FALSE)
            /\ frame[t].response.alert_prices[i] = None
            /\ ~frame[t].response.context.alerts[i].hit
            /\ frame[t].alert_rows[j].target = Price_150_51
            /\ frame[t].response.alert_prices[j] = Price_150_51
            /\ frame[t].response.context.alerts[j].hit

-----------------------------------------------------------------------------
(* Watchlist adds of "aapl", " AAPL ", a tab before "aapl", the sharp s     *)
(* (which upper() turns into "SS"), "ss", the blank symbol, and a request   *)
(* without the symbol field; beside them two purchases of "B", whose racing *)
(* INSERTs can leave the write lock held                                    *)

WatchForms ==
    {[symbol |-> s] :
        s \in {<<97, 97, 112, 108>>,
               <<32, 65, 65, 80, 76, 32>>,
               <<9, 97, 97, 112, 108>>,
               <<223>>,
               <<115, 115>>,
               <<32>>,
               Missing}}

NextWatch ==
    \/ /\ served.add_watch < MaxWatches
       /\ \E t \in Threads : \E form \in WatchForms : add_watch(t, form)
    \/ /\ served.post < MaxWatchPurchases
       /\ \E t \in Threads :
             PostRequest(t, [symbol |-> <<66>>, quantity |-> NatStr(10),
                             buy_price |-> NatStr(100), buy_date |-> <<>>,
                             notes |-> <<>>])
    \/ Select
    \/ Write

SpecWatch == Init /\ [][NextWatch]_vars

WatchSymbols(table) == {table[i].symbol : i \in 1..Len(table)}

\* the add_watch request that thread t has just answered
WatchAnswered(t) ==
    /\ frame[t].handler = "add_watch"
    /\ frame[t].response # NoResponse

\* the watchlist holds each symbol once, upper-cased and trimmed, and never
\* the empty symbol
WatchNormalized(table) ==
    /\ \A i, j \in 1..Len(table) : table[i].symbol = table[j].symbol => i = j
    /\ \A i \in 1..Len(table) :
          /\ table[i].symbol # <<>>
          /\ Strip(table[i].symbol) = table[i].symbol
          /\ \E form \in WatchForms :
                /\ form.symbol # Missing
                /\ table[i].symbol = Strip(Upper(form.symbol))

-----------------------------------------------------------------------------
(* Well-formed and malformed purchases and alerts *)

InputForms ==
    {[symbol |-> f[1], quantity |-> f[2], buy_price |-> f[3],
      buy_date |-> <<>>, notes |-> <<>>] :
        f \in {<<<<65>>, NatStr(1), NatStr(1)>>,
               <<<<32>>, NatStr(1), NatStr(1)>>,              \* symbol " "
               <<<<65>>, <<120>>, NatStr(1)>>,                \* quantity "x"
               <<<<65>>, <<49, 46, 53>>, NatStr(1)>>,         \* quantity "1.5"
               <<<<65>>, NatStr(1), <<120>>>>,                \* buy_price "x"
               <<<<65>>, NatStr(1), <<110, 97, 110>>>>,       \* buy_price "nan"
               <<<<65>>, Missing, NatStr(1)>>}}

InputAlertForms ==
    {[symbol |-> f[1], target |-> f[2]] :
        f \in {<<<<65>>, NatStr(1)>>,
               <<<<32>>, NatStr(1)>>,                         \* symbol " "
               <<<<65>>, <<120>>>>,                           \* target "x"
               <<<<65>>, <<110, 97, 110>>>>,                  \* target "nan"
               <<<<65>>, Missing>>}}

NextInputs ==
    \/ /\ served.post < MaxViewedPurchases
       /\ \E t \in Threads : \E form \in InputForms : PostRequest(t, form)
    \/ Select
    \/ Write
    \/ /\ served.add_alert < MaxAlerts
       /\ \E t \in Threads : \E form \in InputAlertForms : add_alert(t, form)

SpecInputs == Init /\ [][NextInputs]_vars

\* an answer that reports an error
IsError(r) == r.status >= 400

\* a field that is absent, or is not the text of a number
NotNumber(field, parsed) == field = Missing \/ parsed = ValueError \/ parsed = NaN

EmptySymbol(field) == field = Missing \/ Strip(Upper(field)) = <<>>

MalformedPurchase(form) ==
    \/ EmptySymbol(form.symbol)
    \/ form.quantity = Missing \/ ParseInt(form.quantity) = ValueError
    \/ NotNumber(form.buy_price, ParseFloat(form.buy_price))

MalformedAlert(form) ==
    \/ EmptySymbol(form.symbol)
    \/ NotNumber(form.target, ParseFloat(form.target))

\* C5: no step of a purchase or of an add_alert request whose form is
\* malformed (a quantity, price or target that is not a number, a symbol that
\* is empty once trimmed) changes a table, and the request is answered by an
\* error.
C5_InputErrors ==
    [][\A t \in Threads :
          (/\ frame'[t] # frame[t]
           /\ \/ frame'[t].handler = "post" /\ MalformedPurchase(frame'[t].form)
              \/ frame'[t].handler = "add_alert" /\ MalformedAlert(frame'[t].form))
          => /\ <<stocks, watchlist, alerts>>' = <<stocks, watchlist, alerts>>
             /\ pc'[t] = "idle" => IsError(frame'[t].response)]_vars

====
